---- MODULE Spec2Model ----
(***************************************************************************)
(* Model of transfer_animation.py: the batch loop of main(), the host      *)
(* supervision of process_single_transfer(), the output naming of          *)
(* create_output_filename(), and the transfer script that                  *)
(* create_blender_script() generates for the host.                         *)
(*                                                                         *)
(* Paths are sequences of one-character strings, so that the os.path       *)
(* functions are computed the way posixpath computes them.                 *)
(***************************************************************************)
EXTENDS Integers, Sequences, FiniteSets, TLC

VARIABLES
    source_files,       \* main: list returned by find_blend_files
    target,             \* main: args.target
    continue_on_error,  \* main: args.continue_on_error
    pc,                 \* position of the supervising process
    idx,                \* main: index of the for loop in source_files
    results,            \* main: results dict, source path -> bool
    successful,         \* main: counter of successful files
    exit_code,          \* main: argument of the final sys.exit, -1 before it
    attempted,          \* history: sources handed to process_single_transfer
    output_file,        \* process_single_transfer: output_file
    temp_script,        \* process_single_transfer: the temp script exists on disk
    elapsed,            \* process_single_transfer: elapsed, in poll ticks
    process,            \* process_single_transfer: the Popen object
    orphans,            \* files of hosts still alive after their call returned
    fs,                 \* the file system: path -> content
    last,               \* history: how the latest call left process_single_transfer
    pipe,               \* the host's stdout and stderr pipes and what it has yet to write
    script,             \* host script: the constants create_blender_script embeds
    now,                \* host script: time.time(), in seconds
    monitor,            \* host script: the SafetyMonitor object
    bpy,                \* host script: the scene host's state
    run,                \* host script: position and locals of its main()
    printed,            \* host script: the marker lines printed so far
    hist                \* history of the host script's run

batchVars == <<source_files, target, continue_on_error, pc, idx, results,
               successful, exit_code, attempted, output_file, temp_script,
               elapsed, process, orphans, fs, last, pipe>>

hostVars == <<script, now, monitor, bpy, run, printed, hist>>

----------------------------------------------------------------------------
(* Bounds of the model.                                                    *)

\* number of source files of the longest batch
MaxFiles == 3
\* args.timeout, counted in poll ticks of the supervisor
TimeoutTicks == 1

----------------------------------------------------------------------------
(* Paths.                                                                  *)

Ext == <<".", "b", "l", "e", "n", "d">>
ExtUpper == <<".", "B", "L", "E", "N", "D">>
To == <<"_", "t", "o", "_">>

\* the sorted listing find_blend_files returns for the directory "d"
DirListing ==
    << <<"d", "/", "a">> \o Ext,
       <<"d", "/", "a">> \o To \o <<"t">> \o Ext,
       <<"d", "/", "b">> \o ExtUpper,
       <<"d", "/", "t">> \o Ext >>

\* a single source file given without a directory
SingleSource == <<"a">> \o Ext

Targets == { <<"t">> \o Ext, <<"d", "/", "t">> \o Ext }

Min(a, b) == IF a < b THEN a ELSE b

\* str.rfind(c) + 1: the 1-based index of the last c in p, 0 when there is none
RFind(p, c) ==
    LET hits == {i \in 1..Len(p) : p[i] = c}
    IN  IF hits = {} THEN 0 ELSE CHOOSE i \in hits : \A j \in hits : j <= i

RECURSIVE RStrip(_, _)
RStrip(p, c) ==
    IF p # <<>> /\ p[Len(p)] = c THEN RStrip(SubSeq(p, 1, Len(p) - 1), c) ELSE p

dirname(p) ==
    LET head == SubSeq(p, 1, RFind(p, "/"))
    IN  IF head # <<>> /\ (\E k \in 1..Len(head) : head[k] # "/")
        THEN RStrip(head, "/")
        ELSE head

basename(p) == SubSeq(p, RFind(p, "/") + 1, Len(p))

\* os.path.splitext(p)[0]
splitext_root(p) ==
    LET sepIndex == RFind(p, "/")
        dotIndex == RFind(p, ".")
    IN  IF dotIndex > sepIndex
           /\ (\E k \in (sepIndex + 1)..(dotIndex - 1) : p[k] # ".")
        THEN SubSeq(p, 1, dotIndex - 1)
        ELSE p

join(a, b) ==
    IF b # <<>> /\ b[1] = "/" THEN b
    ELSE IF a = <<>> \/ a[Len(a)] = "/" THEN a \o b
    ELSE a \o <<"/">> \o b

\* a slip: the output is named after the target alone
create_output_filename_target_stem(source_path, target_path) ==
    join(dirname(source_path), splitext_root(basename(target_path)) \o Ext)

create_output_filename(source_path, target_path) ==
    LET source_dir == dirname(source_path)
        source_name == splitext_root(basename(source_path))
        target_name == splitext_root(basename(target_path))
        output_name == source_name \o To \o target_name \o Ext
    IN  join(source_dir, output_name)

SourceLists ==
    {SubSeq(DirListing, 1, n) : n \in 1..Min(MaxFiles, Len(DirListing))}
        \cup {<<SingleSource>>}

Range(s) == {s[i] : i \in 1..Len(s)}

AllPaths ==
    LET srcs == Range(DirListing) \cup {SingleSource}
    IN  Targets \cup srcs
            \cup {create_output_filename(s, t) : s \in srcs, t \in Targets}

----------------------------------------------------------------------------
(* The host process as the supervisor sees it.                             *)

Sentinel == "RESULT: SUCCESS"

\* what a host may have written to one of its pipes, as the set of marker lines
StdoutTexts == { {"RESULT: FAILED"}, {Sentinel} }
StderrTexts == { {}, {Sentinel} }

NoProcess == [state |-> "none", file |-> <<>>, returncode |-> -1,
              stdout |-> {}, stderr |-> {}]

\* no host has been started with pipes under study
NoPipe == [stdout |-> 0, stderr |-> 0, to_stdout |-> 0, to_stderr |-> 0]

NoReturn == [src |-> <<>>, outcome |-> "none", cause |-> "none",
             host_alive |-> FALSE, output_exists |-> FALSE,
             returncode |-> -1, stdout |-> {}, stderr |-> {}]

source_file == source_files[idx]

InProcessSingleTransfer ==
    pc \in {"copy", "script", "launch", "poll", "monitor", "communicate"}

\* the statements of process_single_transfer that run inside its try block
InTry == pc \in {"launch", "poll", "monitor", "communicate"}

----------------------------------------------------------------------------
(* main: what the for loop does with the outcome of one file.              *)

\* a slip: the loop goes on after a failure whatever the flag says
main_on_return_no_break(success) ==
    /\ results' = [s \in DOMAIN results \cup {source_file} |->
                       IF s = source_file THEN success ELSE results[s]]
    /\ successful' = IF success THEN successful + 1 ELSE successful
    /\ pc' = "for"
    /\ idx' = idx + 1

main_on_return(success) ==
    /\ results' = [s \in DOMAIN results \cup {source_file} |->
                       IF s = source_file THEN success ELSE results[s]]
    /\ successful' = IF success THEN successful + 1 ELSE successful
    /\ IF ~success /\ ~continue_on_error
       THEN pc' = "summary" /\ idx' = idx
       ELSE pc' = "for" /\ idx' = idx + 1

\* a slip: the handler reports the error and does not record the file
main_on_exception_unrecorded ==
    /\ results' = results
    /\ successful' = successful
    /\ IF ~continue_on_error
       THEN pc' = "summary" /\ idx' = idx
       ELSE pc' = "for" /\ idx' = idx + 1

main_on_exception ==
    /\ results' = [s \in DOMAIN results \cup {source_file} |->
                       IF s = source_file THEN FALSE ELSE results[s]]
    /\ successful' = successful
    /\ IF ~continue_on_error
       THEN pc' = "summary" /\ idx' = idx
       ELSE pc' = "for" /\ idx' = idx + 1

main_on_interrupt ==
    /\ results' = results
    /\ successful' = successful
    /\ pc' = "summary"
    /\ idx' = idx

\* process_single_transfer is left: by return (success or failed), by an
\* exception or by KeyboardInterrupt. p is the Popen object as it is then,
\* newfs the file system as it is then. The finally clause removes the temp
\* script; the locals process and elapsed end with the call.
Leave(outcome, cause, p, newfs) ==
    /\ fs' = newfs
    /\ temp_script' = IF InTry THEN FALSE ELSE temp_script
    /\ process' = NoProcess
    /\ orphans' = IF p.state = "running" THEN orphans \cup {p.file} ELSE orphans
    /\ last' = [src |-> source_file, outcome |-> outcome, cause |-> cause,
                host_alive |-> (p.state = "running"),
                output_exists |-> (newfs[output_file] \in {"copy", "saved"}),
                returncode |-> p.returncode, stdout |-> p.stdout,
                stderr |-> p.stderr]
    /\ CASE outcome = "success"   -> main_on_return(TRUE)
         [] outcome = "failed"    -> main_on_return(FALSE)
         [] outcome = "exception" -> main_on_exception
         [] outcome = "interrupt" -> main_on_interrupt
    /\ elapsed' = 0
    /\ UNCHANGED <<hostVars, pipe, source_files, target, continue_on_error, exit_code,
                   attempted, output_file>>

----------------------------------------------------------------------------
(* process_single_transfer, statement by statement.                        *)

\* shutil.copy2(target_path, output_path)
copy_target_file(from, to) == [fs EXCEPT ![to] = "copy"]

\* a slip: the exit code alone decides
classify_exit_code_only(returncode, stdout) == returncode = 0

\* process.returncode == 0 and "RESULT: SUCCESS" in stdout
classify(returncode, stdout) == returncode = 0 /\ Sentinel \in stdout

\* if os.path.exists(output_file): os.remove(output_file)
remove_failed_output(files) == [files EXCEPT ![output_file] = "none"]

\* for source_file in source_files: ... process_single_transfer(...), up to
\* output_file = create_output_filename(source_file, target_file)
NextFile ==
    /\ pc = "for"
    /\ \/ /\ idx <= Len(source_files)
          /\ pc' = "copy"
          /\ attempted' = Append(attempted, source_file)
          /\ output_file' = create_output_filename(source_file, target)
       \/ /\ idx > Len(source_files)
          /\ pc' = "summary"
          /\ UNCHANGED <<attempted, output_file>>
    /\ UNCHANGED <<hostVars, pipe, source_files, target, continue_on_error, idx, results,
                   successful, exit_code, temp_script, elapsed, process,
                   orphans, fs, last>>

\* if not copy_target_file(target_file, output_file): return False
\* (shutil.copy2 raises SameFileError when both name the same file)
CopyTarget ==
    /\ pc = "copy"
    /\ \/ /\ output_file # target
          /\ fs' = copy_target_file(target, output_file)
          /\ pc' = "script"
          /\ UNCHANGED <<hostVars, pipe, source_files, target, continue_on_error, idx,
                         results, successful, exit_code, attempted,
                         output_file, temp_script, elapsed, process, orphans,
                         last>>
       \/ Leave("failed", "copy", process, fs)

\* create_blender_script(...) and the NamedTemporaryFile that holds it
CreateScript ==
    /\ pc = "script"
    /\ \/ /\ temp_script' = TRUE
          /\ pc' = "launch"
          /\ UNCHANGED <<hostVars, pipe, source_files, target, continue_on_error, idx,
                         results, successful, exit_code, attempted,
                         output_file, elapsed, process, orphans, fs, last>>
       \/ Leave("exception", "script", process, fs)

\* start_time = time.time(); process = subprocess.Popen(cmd, ...)
Launch ==
    /\ pc = "launch"
    /\ \/ /\ process' = [state |-> "running", file |-> output_file,
                         returncode |-> -1, stdout |-> {}, stderr |-> {}]
          /\ elapsed' = 0
          /\ pc' = "poll"
          /\ UNCHANGED <<hostVars, pipe, source_files, target, continue_on_error, idx,
                         results, successful, exit_code, attempted,
                         output_file, temp_script, orphans, fs, last>>
       \/ Leave("exception", "launch", process, fs)

\* while process.poll() is None:
PollLoop ==
    /\ pc = "poll"
    /\ pc' = IF process.state = "running" THEN "monitor" ELSE "communicate"
    /\ UNCHANGED <<hostVars, pipe, source_files, target, continue_on_error, idx, results,
                   successful, exit_code, attempted, output_file, temp_script,
                   elapsed, process, orphans, fs, last>>

\* process.terminate(); process.wait(timeout=5);
\* if process.poll() is None: process.kill(); return False
\* wait() raises TimeoutExpired when the host outlives the 5 seconds.
Terminate(cause) ==
    \/ /\ process.state = "exited"
       /\ Leave("failed", cause, process, fs)
    \/ /\ process.state = "running"
       /\ Leave("failed", cause, [process EXCEPT !.state = "terminated"], fs)
    \/ /\ process.state = "running"
       /\ Leave("exception", cause, process, fs)

\* the body of the poll loop: the timeout check; the memory check, whose
\* measurement is over the limit, under it, or not available (NoSuchProcess,
\* AccessDenied: swallowed); the sleep of one tick
Monitor ==
    /\ pc = "monitor"
    /\ \/ /\ elapsed > TimeoutTicks
          /\ Terminate("timeout")
       \/ /\ elapsed <= TimeoutTicks
          /\ Terminate("memory")
       \/ /\ elapsed <= TimeoutTicks
          /\ elapsed' = elapsed + 1
          /\ pc' = "poll"
          /\ UNCHANGED <<hostVars, pipe, source_files, target, continue_on_error, idx,
                         results, successful, exit_code, attempted,
                         output_file, temp_script, process, orphans, fs, last>>

\* stdout, stderr = process.communicate() and the classification after it
Communicate ==
    /\ pc = "communicate"
    /\ \/ /\ classify(process.returncode, process.stdout)
          /\ Leave("success", "natural", process, fs)
       \/ /\ ~classify(process.returncode, process.stdout)
          /\ Leave("failed", "natural", process, remove_failed_output(fs))
       \/ Leave("exception", "communicate", process, fs)

\* KeyboardInterrupt while a file is being processed
Interrupt ==
    /\ InProcessSingleTransfer
    /\ Leave("interrupt", "interrupt", process, fs)

\* the summary and sys.exit(0 if successful == len(results) else 1)
Summary ==
    /\ pc = "summary"
    /\ exit_code' = IF successful = Cardinality(DOMAIN results) THEN 0 ELSE 1
    /\ pc' = "exited"
    /\ UNCHANGED <<hostVars, pipe, source_files, target, continue_on_error, idx, results,
                   successful, attempted, output_file, temp_script, elapsed,
                   process, orphans, fs, last>>

----------------------------------------------------------------------------
(* The host, running beside the supervisor.                                *)

\* the host script's last lines: on success save the file the host was
\* opened on and exit 0, otherwise exit 1; a host may also end in other ways
HostExit ==
    /\ process.state = "running"
    /\ \E rc \in {0, 1}, out \in StdoutTexts, err \in StderrTexts :
          /\ process' = [process EXCEPT !.state = "exited", !.returncode = rc,
                                        !.stdout = out, !.stderr = err]
          /\ fs' = IF rc = 0 /\ Sentinel \in out
                   THEN [fs EXCEPT ![process.file] = "saved"]
                   ELSE fs
    /\ UNCHANGED <<hostVars, pipe, source_files, target, continue_on_error, pc, idx, results,
                   successful, exit_code, attempted, output_file, temp_script,
                   elapsed, orphans, last>>

\* a host that outlived its call ends at last
OrphanExit ==
    /\ \E f \in orphans :
          /\ orphans' = orphans \ {f}
          /\ \/ fs' = [fs EXCEPT ![f] = "saved"]
             \/ fs' = fs
    /\ UNCHANGED <<hostVars, pipe, source_files, target, continue_on_error, pc, idx, results,
                   successful, exit_code, attempted, output_file, temp_script,
                   elapsed, process, last>>

----------------------------------------------------------------------------
(* The host script generated by create_blender_script: constants.          *)

PROGRESS_INTERVAL == 100
\* check_timeout's default max_seconds
ShortTimeout == 300
\* max_seconds of the checks inside the copy loop
LongTimeout == 600
\* check_progress: seconds without progress
StallSeconds == 30
\* the copy loop checks memory every this many frames
MemoryCheckFrames == 100
\* the copy loop checks the time every this many bones
TimeoutCheckBones == 50

\* bounds of the model: the longest frame range, and the seconds a quick and
\* a slow step of the host take
MaxFrameCount == 5
QuickStep == 20
SlowStep == 301

\* the seconds one step of the host may take
Durations == {0, QuickStep, SlowStep}

\* what psutil reports inside the host: under or over the limit, psutil not
\* installed (ImportError), or a psutil error
MemoryReadings == {"under", "over", "no_psutil", "access_denied"}

Obj(n, t) == [name |-> n, type |-> t]

\* the objects of the scene the host was opened on, in enumeration order
TargetScenes ==
    { << Obj("Cube", "MESH") >>,
      << Obj("Cube", "MESH"), Obj("T1", "ARMATURE"), Obj("T2", "ARMATURE") >> }

\* the objects of the source file, in enumeration order
SourceFileObjects ==
    { << Obj("Body", "MESH") >>,
      << Obj("S1", "ARMATURE"), Obj("Body", "MESH"), Obj("S2", "ARMATURE") >> }

AllBones == <<"hip", "arm", "leg", "tail">>
BoneNo(b) == CHOOSE i \in 1..Len(AllBones) : AllBones[i] = b

SourceBoneLists == { <<"hip">>, <<"hip", "arm", "leg">> }
TargetBoneLists == { <<"arm", "hip">>, <<"hip", "tail", "arm">> }

\* the pose of the source rig's bone b when the scene is at frame f
source_location(b, f) == <<f, BoneNo(b), f - BoneNo(b)>>
source_rotation(b, f) == <<1, f, BoneNo(b), 0>>
source_scale(b, f) == <<1, 1 + f, 1>>

None == "None"

\* an action that reports no frame range
NoRange == << >>

NoKeyframes == [k \in {} |-> 0]

\* the scene's frame bounds when the host is started
SceneFrameBounds == <<1, 2>>

\* history of one run of the host script: the frames frame_set was called
\* with, the calls of check_progress, whether a step took longer than
\* StallSeconds, and for a run ended by a check the check ("timeout",
\* "memory", "stall"), the memory reading and the seconds since start_time
NoHistory == [frames_set |-> << >>, progress_calls |-> 0, slow |-> FALSE,
              cause |-> "none", reading |-> "none", raised_at |-> 0]

HostIdle ==
    /\ script = [MAX_FRAME_RANGE |-> 0, MAX_BONES |-> 0, scale_factor |-> 0]
    /\ now = 0
    /\ monitor = [start_time |-> 0, last_progress |-> 0, frame_count |-> 0]
    /\ bpy = [scene_objects |-> << >>, data_objects |-> << >>,
              frame_start |-> 0, frame_end |-> 0, frame_current |-> 0,
              mode |-> "OBJECT", target_action |-> None,
              keyframes |-> NoKeyframes, saved |-> FALSE]
    /\ run = [pc |-> "idle"]
    /\ printed = {}
    /\ hist = NoHistory

----------------------------------------------------------------------------

BatchInit ==
    /\ source_files \in SourceLists
    /\ target \in Targets
    /\ continue_on_error \in BOOLEAN
    /\ pc = "for"
    /\ idx = 1
    /\ results = << >>
    /\ successful = 0
    /\ exit_code = -1
    /\ attempted = << >>
    /\ output_file = << >>
    /\ temp_script = FALSE
    /\ elapsed = 0
    /\ process = NoProcess
    /\ orphans = {}
    /\ fs = [p \in AllPaths |->
                IF p = target THEN "orig"
                ELSE IF p \in Range(source_files) THEN "source"
                ELSE "none"]
    /\ last = NoReturn
    /\ pipe = NoPipe

\* no batch is running: the state of the supervisor while one run of the
\* host script is looked at on its own
BatchIdle ==
    /\ source_files = <<SingleSource>>
    /\ target = <<"t">> \o Ext
    /\ continue_on_error = FALSE
    /\ pc = "idle"
    /\ idx = 1
    /\ results = << >>
    /\ successful = 0
    /\ exit_code = -1
    /\ attempted = << >>
    /\ output_file = << >>
    /\ temp_script = FALSE
    /\ elapsed = 0
    /\ process = NoProcess
    /\ orphans = {}
    /\ fs = [p \in AllPaths |-> "none"]
    /\ last = NoReturn
    /\ pipe = NoPipe

BatchNext ==
    \/ NextFile
    \/ CopyTarget
    \/ CreateScript
    \/ Launch
    \/ PollLoop
    \/ Monitor
    \/ Communicate
    \/ Interrupt
    \/ Summary
    \/ HostExit
    \/ OrphanExit

vars == <<batchVars, hostVars>>

\* the batch, with no host script under study
Init == BatchInit /\ HostIdle
Next == BatchNext
Spec == Init /\ [][Next]_vars

----------------------------------------------------------------------------
(* The host script: SafetyMonitor.                                         *)

\* each check gives "ok" or the type of the exception it raises

check_timeout(max_seconds) ==
    IF now - monitor.start_time > max_seconds THEN "RuntimeError" ELSE "ok"

\* reading is what psutil gives; only ImportError is caught
check_memory(reading) ==
    CASE reading = "over"          -> "RuntimeError"
      [] reading = "access_denied" -> "Exception"
      [] OTHER                     -> "ok"

\* a slip: the stall is declared at 30 seconds already
check_progress_raises_at_limit(mon, time) ==
    IF time - mon.last_progress >= StallSeconds THEN "RuntimeError" ELSE "ok"

\* check_progress, the test: if now - self.last_progress > 30: raise
check_progress_raises(mon, time) ==
    IF time - mon.last_progress > StallSeconds THEN "RuntimeError" ELSE "ok"

\* check_progress(current_frame), the rest: the monitor once the call returned
check_progress_update(mon, time) ==
    LET count == mon.frame_count + 1
    IN  [mon EXCEPT !.frame_count = count,
                    !.last_progress =
                        IF count % PROGRESS_INTERVAL = 0 THEN time ELSE @]

update_progress == [monitor EXCEPT !.last_progress = now]

\* the first check of a sequence that raises decides
RECURSIVE FirstRaised(_)
FirstRaised(checks) ==
    IF checks = << >> THEN "ok"
    ELSE IF Head(checks) # "ok" THEN Head(checks)
    ELSE FirstRaised(Tail(checks))

\* the history after a step that went through and took d seconds
Took(d) == [hist EXCEPT !.slow = @ \/ d > StallSeconds]

\* the history after a check ended the run: the first of the time, progress
\* and memory checks that raised is the cause
EndedBy(h, timeout, progress, reading) ==
    LET cause == IF timeout # "ok" THEN "timeout"
                 ELSE IF progress # "ok" THEN "stall"
                 ELSE "memory"
    IN  [h EXCEPT !.cause = cause,
                  !.reading = IF cause = "memory" THEN reading ELSE "none",
                  !.raised_at = now - monitor.start_time]

\* the history after a call of the host raised
EndedByHost(h) == [h EXCEPT !.cause = "host"]

----------------------------------------------------------------------------
(* The host script: main().                                                *)

ErrorLine(exception) ==
    CASE exception = "RuntimeError" -> "SAFETY ERROR"
      [] exception = "MemoryError"  -> "ERROR: Out of memory"
      [] OTHER                      -> "UNEXPECTED ERROR"

\* a slip: the handlers put the scene's frame bounds back
Raised_restoring(exception, scene, mon) ==
    /\ printed' = printed \cup {ErrorLine(exception), "RESULT: FAILED"}
    /\ run' = [run EXCEPT !.pc = "returned", !.result = "False"]
    /\ bpy' = [scene EXCEPT !.mode = "OBJECT",
                            !.frame_start = SceneFrameBounds[1],
                            !.frame_end = SceneFrameBounds[2]]
    /\ monitor' = mon
    /\ now' = now

\* an exception reaches the handlers of main(): the diagnostic and
\* RESULT: FAILED are printed, False is returned, and the finally clause
\* puts the host back in object mode
Raised(exception, scene, mon) ==
    /\ printed' = printed \cup {ErrorLine(exception), "RESULT: FAILED"}
    /\ run' = [run EXCEPT !.pc = "returned", !.result = "False"]
    /\ bpy' = [scene EXCEPT !.mode = "OBJECT"]
    /\ monitor' = mon
    /\ now' = now

\* print an error and return False from inside the try block
ReturnFalse(line, locals) ==
    /\ printed' = printed \cup {line}
    /\ run' = [locals EXCEPT !.pc = "returned", !.result = "False"]
    /\ bpy' = [bpy EXCEPT !.mode = "OBJECT"]

\* the objects of type t in objs, in order
OfType(objs, t) == SelectSeq(objs, LAMBDA o : o.type = t)

Names(objs) == {objs[i].name : i \in 1..Len(objs)}

\* for obj in bpy.context.scene.objects: if obj.type == 'ARMATURE': ... break
find_target_armature(objs) ==
    IF OfType(objs, "ARMATURE") = << >> THEN None
    ELSE OfType(objs, "ARMATURE")[1].name

\* the loop over bpy.data.objects: every armature among the imported objects
\* that is not the target is assigned in turn, the last assignment stays
find_source_armature(imported, target_armature) ==
    LET found == SelectSeq(imported, LAMBDA o : o.type = "ARMATURE"
                                                /\ o.name # target_armature)
    IN  IF found = << >> THEN None ELSE found[Len(found)].name

\* monitor.check_timeout(); monitor.check_memory(); the search for the target
\* armature; monitor.update_progress()
FindTarget ==
    /\ run.pc = "find_target"
    /\ \E reading \in MemoryReadings, d \in Durations :
          LET timeout == check_timeout(ShortTimeout)
              raised == FirstRaised(<<timeout, check_memory(reading)>>)
              found == find_target_armature(bpy.scene_objects)
          IN  IF raised # "ok"
              THEN /\ Raised(raised, bpy, monitor)
                   /\ hist' = EndedBy(hist, timeout, "ok", reading)
              ELSE /\ now' = now + d
                   /\ hist' = Took(d)
                   /\ IF found = None
                      THEN /\ ReturnFalse("ERROR: No target armature found!", run)
                           /\ monitor' = monitor
                      ELSE /\ run' = [run EXCEPT !.pc = "load_source",
                                                 !.target_armature = found]
                           /\ monitor' = update_progress
                           /\ UNCHANGED <<bpy, printed>>
    /\ UNCHANGED <<batchVars, script>>

\* monitor.check_timeout(); bpy.data.libraries.load(source_file) of objects,
\* actions and armatures; monitor.update_progress()
LoadSource ==
    /\ run.pc = "load_source"
    /\ \E objs \in SourceFileObjects, loaded \in BOOLEAN, d \in Durations :
          LET timeout == check_timeout(ShortTimeout)
          IN  IF timeout # "ok"
              THEN /\ Raised(timeout, bpy, monitor)
                   /\ hist' = EndedBy(hist, timeout, "ok", "none")
              ELSE IF ~loaded
              THEN /\ Raised("Exception", bpy, monitor)
                   /\ hist' = EndedByHost(hist)
              ELSE /\ now' = now + d
                   /\ hist' = Took(d)
                   /\ bpy' = [bpy EXCEPT !.data_objects = @ \o objs]
                   /\ run' = [run EXCEPT !.pc = "find_source"]
                   /\ monitor' = update_progress
                   /\ printed' = printed
    /\ UNCHANGED <<batchVars, script>>

\* the loop that links the imported objects into the scene and picks the
\* source armature; monitor.update_progress()
FindSource ==
    /\ run.pc = "find_source"
    /\ \E d \in Durations :
          LET timeout == IF bpy.data_objects = << >> THEN "ok"
                         ELSE check_timeout(ShortTimeout)
              imported == SelectSeq(bpy.data_objects,
                              LAMBDA o : o.name \notin Names(bpy.scene_objects))
              found == find_source_armature(imported, run.target_armature)
              linked == [bpy EXCEPT !.scene_objects = @ \o imported]
              locals == [run EXCEPT !.imported_objects = imported,
                                    !.source_armature = found]
          IN  IF timeout # "ok"
              THEN /\ Raised(timeout, bpy, monitor)
                   /\ hist' = EndedBy(hist, timeout, "ok", "none")
              ELSE /\ now' = now + d
                   /\ hist' = Took(d)
                   /\ IF found = None
                      THEN /\ printed' = printed \cup
                                           {"ERROR: No source armature found!"}
                           /\ run' = [locals EXCEPT !.pc = "returned",
                                                    !.result = "False"]
                           /\ bpy' = [linked EXCEPT !.mode = "OBJECT"]
                           /\ monitor' = monitor
                      ELSE /\ run' = [locals EXCEPT !.pc = "get_animation"]
                           /\ bpy' = linked
                           /\ monitor' = update_progress
                           /\ printed' = printed
    /\ UNCHANGED <<batchVars, script>>

\* the source armature's action, or the first action of bpy.data.actions when
\* it has none; monitor.update_progress()
GetAnimation ==
    /\ run.pc = "get_animation"
    /\ \E assigned \in {None, "Walk"}, available \in {<< >>, <<"Idle", "Walk">>},
          d \in Durations :
          /\ assigned # None => available # << >>
          /\ now' = now + d
          /\ hist' = Took(d)
          /\ IF assigned = None /\ available = << >>
             THEN /\ ReturnFalse("ERROR: No animation data found!", run)
                  /\ monitor' = monitor
             ELSE /\ run' = [run EXCEPT !.pc = "create_action",
                                !.source_action =
                                    IF assigned = None THEN available[1]
                                    ELSE assigned]
                  /\ printed' = IF assigned = None
                                THEN printed \cup {"ERROR: No animation data found!"}
                                ELSE printed
                  /\ monitor' = update_progress
                  /\ bpy' = bpy
    /\ UNCHANGED <<batchVars, script>>

\* target_action = bpy.data.actions.new(...), assigned to the target
\* armature; monitor.update_progress()
CreateTargetAction ==
    /\ run.pc = "create_action"
    /\ \E d \in Durations : now' = now + d /\ hist' = Took(d)
    /\ bpy' = [bpy EXCEPT !.target_action =
                   [name |-> <<run.source_action, "_scaled">>,
                    frame_range |-> NoRange]]
    /\ run' = [run EXCEPT !.pc = "pose_mode"]
    /\ monitor' = update_progress
    /\ UNCHANGED <<batchVars, script, printed>>

\* bpy.ops.object.mode_set(mode='POSE'); monitor.update_progress()
PoseMode ==
    /\ run.pc = "pose_mode"
    /\ \E d \in Durations : now' = now + d /\ hist' = Took(d)
    /\ bpy' = [bpy EXCEPT !.mode = "POSE"]
    /\ run' = [run EXCEPT !.pc = "bone_mapping"]
    /\ monitor' = update_progress
    /\ UNCHANGED <<batchVars, script, printed>>

\* a slip: twice the limit is already too much
over_double_limit_inclusive(count, limit) == count >= limit * 2

\* the outer test of the two limit checks: warn
over_limit(count, limit) == count > limit

\* the inner test of the two limit checks: fail
over_double_limit(count, limit) == count > limit * 2

\* a slip: every bone of the source rig is mapped
create_bone_mapping_every_source_bone(source_bone_names, target_bone_names) ==
    [i \in 1..Len(source_bone_names) |->
        <<source_bone_names[i], source_bone_names[i]>>]

\* if source_bone_name in target_bone_names: bone_mapping[name] = name
\* the dict as the sequence of its items, in insertion order
create_bone_mapping(source_bone_names, target_bone_names) ==
    LET mapped == SelectSeq(source_bone_names,
                            LAMBDA b : b \in Range(target_bone_names))
    IN  [i \in 1..Len(mapped) |-> <<mapped[i], mapped[i]>>]

\* the checks, the bone count limits and the bone mapping
BoneMapping ==
    /\ run.pc = "bone_mapping"
    /\ \E source_bone_names \in SourceBoneLists,
          target_bone_names \in TargetBoneLists,
          reading \in MemoryReadings, d \in Durations :
          LET timeout == check_timeout(ShortTimeout)
              raised == FirstRaised(<<timeout, check_memory(reading)>>)
              ns == Len(source_bone_names)
              nt == Len(target_bone_names)
              warn == over_limit(ns, script.MAX_BONES)
                        \/ over_limit(nt, script.MAX_BONES)
              fail == warn /\ (over_double_limit(ns, script.MAX_BONES)
                                 \/ over_double_limit(nt, script.MAX_BONES))
              warned == IF warn
                        THEN printed \cup {"WARNING: Large number of bones"}
                        ELSE printed
              locals == [run EXCEPT !.source_bone_names = source_bone_names,
                                    !.target_bone_names = target_bone_names]
          IN  IF raised # "ok"
              THEN /\ Raised(raised, bpy, monitor)
                   /\ hist' = EndedBy(hist, timeout, "ok", reading)
              ELSE /\ now' = now + d
                   /\ hist' = Took(d)
                   /\ IF fail
                      THEN /\ printed' = warned \cup
                                    {"ERROR: Too many bones for safe processing"}
                           /\ run' = [locals EXCEPT !.pc = "returned",
                                                    !.result = "False"]
                           /\ bpy' = [bpy EXCEPT !.mode = "OBJECT"]
                           /\ monitor' = monitor
                      ELSE /\ printed' = warned
                           /\ run' = [locals EXCEPT
                                         !.pc = "resolve_frames",
                                         !.bone_mapping =
                                             create_bone_mapping(
                                                 source_bone_names,
                                                 target_bone_names)]
                           /\ UNCHANGED <<bpy, monitor>>
    /\ UNCHANGED <<batchVars, script>>

\* int(x) of a frame number given in halves of a frame: towards zero
int(halves) == IF halves >= 0 THEN halves \div 2 ELSE -((-halves) \div 2)

\* the frame ranges a source action may report, in halves of a frame
ActionFrameRanges ==
    {<<s, s + 2 * (c - 1)>> : s \in {2, 3}, c \in 1..MaxFrameCount}

\* a slip: the frames are always the scene's
resolve_frame_range_of_scene(frame_range, scene) ==
    <<scene.frame_start, scene.frame_end>>

\* start_frame and end_frame: the action's frame range as integers, or the
\* scene's bounds when the action's frame range is falsy
resolve_frame_range(frame_range, scene) ==
    IF frame_range # NoRange
    THEN <<int(frame_range[1]), int(frame_range[2])>>
    ELSE <<scene.frame_start, scene.frame_end>>

\* the checks, the frame range, the frame count limits and the scene range
ResolveFrames ==
    /\ run.pc = "resolve_frames"
    /\ \E frame_range \in ActionFrameRanges \cup {NoRange},
          reading \in MemoryReadings, d \in Durations :
          LET timeout == check_timeout(ShortTimeout)
              raised == FirstRaised(<<timeout, check_memory(reading)>>)
              resolved == resolve_frame_range(frame_range, bpy)
              start_frame == resolved[1]
              end_frame == resolved[2]
              frame_count == end_frame - start_frame + 1
              warn == over_limit(frame_count, script.MAX_FRAME_RANGE)
              fail == warn /\ over_double_limit(frame_count,
                                                script.MAX_FRAME_RANGE)
              warned == IF warn
                        THEN printed \cup {"WARNING: Large frame range"}
                        ELSE printed
              locals == [run EXCEPT !.frame_range = frame_range,
                                    !.start_frame = start_frame,
                                    !.end_frame = end_frame,
                                    !.frame_count = frame_count]
          IN  IF raised # "ok"
              THEN /\ Raised(raised, bpy, monitor)
                   /\ hist' = EndedBy(hist, timeout, "ok", reading)
              ELSE /\ now' = now + d
                   /\ hist' = Took(d)
                   /\ monitor' = monitor
                   /\ IF fail
                      THEN /\ printed' = warned \cup
                                           {"ERROR: Frame range too large"}
                           /\ run' = [locals EXCEPT !.pc = "returned",
                                                    !.result = "False"]
                           /\ bpy' = [bpy EXCEPT !.mode = "OBJECT"]
                      ELSE /\ printed' = warned \cup {"Extended scene range"}
                           /\ run' = [locals EXCEPT
                                         !.pc = "copy",
                                         !.original_start = bpy.frame_start,
                                         !.original_end = bpy.frame_end,
                                         !.frame_idx = 0,
                                         !.keyframes_copied = 0]
                           /\ bpy' = [bpy EXCEPT !.frame_start = start_frame,
                                                 !.frame_end = end_frame]
    /\ UNCHANGED <<batchVars, script>>

\* a slip: the location is copied as it is
scaled_location_unscaled(location, scale_factor) == location

\* scaled_location = source_bone.location.copy(); scaled_location *= scale_factor
scaled_location(location, scale_factor) ==
    [i \in 1..Len(location) |-> location[i] * scale_factor]

\* the body of the loop over the bone mapping for one bone: the three values
\* are read from the source bone as posed at the scene's current frame and
\* keyed on the target bone at frame
transfer_bone(scene, source_bone_name, target_bone_name, frame) ==
    LET key == <<target_bone_name, frame>>
        sample == [location |-> scaled_location(
                                    source_location(source_bone_name,
                                                    scene.frame_current),
                                    script.scale_factor),
                   rotation |-> source_rotation(source_bone_name,
                                                scene.frame_current),
                   scale |-> source_scale(source_bone_name,
                                          scene.frame_current)]
    IN  [scene EXCEPT !.keyframes =
            [k \in DOMAIN @ \cup {key} |-> IF k = key THEN sample ELSE @[k]]]

\* if (target_bone_name in target_armature.pose.bones and
\*     source_bone_name in source_armature.pose.bones)
in_both_rigs(item) ==
    /\ item[2] \in Range(run.target_bone_names)
    /\ item[1] \in Range(run.source_bone_names)

RECURSIVE transfer_bones(_, _, _, _)
\* for bone_idx, (source_bone_name, target_bone_name) in
\* enumerate(bone_mapping.items()), from the bone_idx-th bone on
transfer_bones(scene, bone_mapping, bone_idx, frame) ==
    IF bone_idx > Len(bone_mapping) THEN scene
    ELSE transfer_bones(
             IF in_both_rigs(bone_mapping[bone_idx])
             THEN transfer_bone(scene, bone_mapping[bone_idx][1],
                                bone_mapping[bone_idx][2], frame)
             ELSE scene,
             bone_mapping, bone_idx + 1, frame)

\* a slip: the frame pointer is left where it was
frame_set_skipped(scene, frame) == scene

\* bpy.context.scene.frame_set(frame)
frame_set(scene, frame) == [scene EXCEPT !.frame_current = frame]

\* what the host may raise while the bones of a frame are keyed
HostErrors == {"ok", "MemoryError"}

\* one iteration of the loop over the frames
CopyFrame ==
    /\ run.pc = "copy"
    /\ run.frame_idx < run.frame_count
    /\ \E reading \in MemoryReadings, host \in HostErrors, d \in Durations :
          LET frame == run.start_frame + run.frame_idx
              timeout == check_timeout(LongTimeout)
              progress == check_progress_raises(monitor, now)
              memory == IF run.frame_idx % MemoryCheckFrames = 0
                        THEN check_memory(reading) ELSE "ok"
              bones == IF \E bone_idx \in 0..(Len(run.bone_mapping) - 1) :
                              bone_idx % TimeoutCheckBones = 0
                       THEN check_timeout(LongTimeout) ELSE "ok"
              raised == FirstRaised(<<timeout, progress, memory, bones>>)
              called == IF timeout = "ok"
                        THEN [hist EXCEPT !.progress_calls = @ + 1]
                        ELSE hist
              counted == IF timeout = "ok" /\ progress = "ok"
                         THEN check_progress_update(monitor, now)
                         ELSE monitor
          IN  IF raised # "ok"
              THEN /\ Raised(raised, bpy, counted)
                   /\ hist' = EndedBy(called, timeout, progress, reading)
              ELSE IF host # "ok"
              THEN /\ Raised(host, frame_set(bpy, frame), counted)
                   /\ hist' = EndedByHost(
                                 [called EXCEPT !.frames_set = Append(@, frame)])
              ELSE /\ now' = now + d
                   /\ hist' = [called EXCEPT
                                  !.frames_set = Append(@, frame),
                                  !.slow = @ \/ d > StallSeconds]
                   /\ bpy' = transfer_bones(frame_set(bpy, frame),
                                            run.bone_mapping, 1, frame)
                   /\ run' = [run EXCEPT
                                 !.frame_idx = @ + 1,
                                 !.keyframes_copied =
                                     @ + Len(SelectSeq(run.bone_mapping,
                                                       in_both_rigs))]
                   /\ monitor' = counted
                   /\ printed' = printed
    /\ UNCHANGED <<batchVars, script>>

\* target_action.frame_range = (start_frame, end_frame)
set_frame_range(scene, start_frame, end_frame) ==
    [scene EXCEPT !.target_action.frame_range = <<start_frame, end_frame>>]

\* after the loop: the action's frame range, the cleanup, RESULT: SUCCESS
Finish ==
    /\ run.pc = "copy"
    /\ run.frame_idx = run.frame_count
    /\ \E d \in Durations :
          LET timeout == check_timeout(ShortTimeout)
              ranged == set_frame_range(bpy, run.start_frame, run.end_frame)
              gone == Names(run.imported_objects)
          IN  IF timeout # "ok"
              THEN /\ Raised(timeout, ranged, monitor)
                   /\ hist' = EndedBy(hist, timeout, "ok", "none")
              ELSE /\ now' = now + d
                   /\ hist' = Took(d)
                   /\ bpy' = [ranged EXCEPT
                                 !.mode = "OBJECT",
                                 !.scene_objects = SelectSeq(
                                     @, LAMBDA o : o.name \notin gone),
                                 !.data_objects = SelectSeq(
                                     @, LAMBDA o : o.name \notin gone)]
                   /\ run' = [run EXCEPT !.pc = "returned",
                                         !.result = "True"]
                   /\ printed' = printed \cup {Sentinel}
                   /\ monitor' = monitor
    /\ UNCHANGED <<batchVars, script>>

\* a slip: the host's exit status is 0 whatever main() returned
exit_status_zero(success) == 0

\* the status main()'s result gives the host's exit
exit_status(success) == IF success = "True" THEN 0 ELSE 1

\* success = main(); save and sys.exit(0) on success, sys.exit(1) otherwise;
\* a save that raises leaves the script with an exception, and the host ends
\* with the status it gives a failed script, 0 or 1
ScriptEnd ==
    /\ run.pc = "returned"
    /\ \/ /\ exit_status(run.result) = 0
          /\ bpy' = [bpy EXCEPT !.saved = TRUE]
          /\ run' = [run EXCEPT !.pc = "exited", !.exit_code = 0]
       \/ /\ exit_status(run.result) = 0
          /\ bpy' = bpy
          /\ \E status \in {0, 1} :
                run' = [run EXCEPT !.pc = "exited", !.exit_code = status]
       \/ /\ exit_status(run.result) # 0
          /\ bpy' = bpy
          /\ run' = [run EXCEPT !.pc = "exited",
                                !.exit_code = exit_status(run.result)]
    /\ UNCHANGED <<batchVars, script, now, monitor, printed, hist>>

\* the limits and the scale a command line may give
MaxFrameChoices == {0, 1, 2}
MaxBoneChoices == {0, 1, 2}
ScaleChoices == {0, 2}

\* the host has been started on a scene and the script has built its monitor
HostInit ==
    /\ script \in [MAX_FRAME_RANGE : MaxFrameChoices, MAX_BONES : MaxBoneChoices,
                   scale_factor : ScaleChoices]
    /\ now = 0
    /\ monitor = [start_time |-> 0, last_progress |-> 0, frame_count |-> 0]
    /\ \E objs \in TargetScenes :
          bpy = [scene_objects |-> objs, data_objects |-> objs,
                 frame_start |-> SceneFrameBounds[1],
                 frame_end |-> SceneFrameBounds[2], frame_current |-> 1,
                 mode |-> "OBJECT", target_action |-> None,
                 keyframes |-> NoKeyframes, saved |-> FALSE]
    /\ run = [pc |-> "find_target", target_armature |-> None,
              source_armature |-> None, imported_objects |-> << >>,
              source_action |-> None, source_bone_names |-> << >>,
              target_bone_names |-> << >>, bone_mapping |-> << >>,
              frame_range |-> NoRange, original_start |-> 0,
              original_end |-> 0,
              start_frame |-> 0, end_frame |-> 0, frame_count |-> -1,
              frame_idx |-> 0, keyframes_copied |-> 0, result |-> "none",
              exit_code |-> -1]
    /\ printed = {}
    /\ hist = NoHistory

HostNext ==
    \/ FindTarget
    \/ LoadSource
    \/ FindSource
    \/ GetAnimation
    \/ CreateTargetAction
    \/ PoseMode
    \/ BoneMapping
    \/ ResolveFrames
    \/ CopyFrame
    \/ Finish
    \/ ScriptEnd

\* one run of the host script, with an idle batch
InitHost == BatchIdle /\ HostInit
SpecHost == InitHost /\ [][HostNext]_vars

----------------------------------------------------------------------------
(* Claims about the supervisor and the batch loop.                         *)

IsPrefix(a, b) == Len(a) <= Len(b) /\ a = SubSeq(b, 1, Len(a))

Recorded(s, ok) == s \in DOMAIN results /\ results[s] = ok

\* C1 as stated: after a natural exit the file succeeds exactly when the exit
\* code is 0 and the sentinel is somewhere in the captured output, stdout or
\* stderr.
C1_SentinelInCapturedOutput ==
    last.cause = "natural" =>
        /\ last.outcome \in {"success", "failed"}
        /\ last.outcome = "success" <=>
              (last.returncode = 0 /\ Sentinel \in (last.stdout \cup last.stderr))

\* C1, amended: after a natural exit process_single_transfer returns success
\* exactly when the exit code is 0 and the sentinel is in the captured
\* standard output; exit 0 without the sentinel and the sentinel with a
\* non-zero exit are failed, and main records what was returned.
C1_SentinelInStdout ==
    last.cause = "natural" =>
        /\ last.outcome \in {"success", "failed"}
        /\ last.outcome = "success" <=>
              (last.returncode = 0 /\ Sentinel \in last.stdout)
        /\ Recorded(last.src, last.outcome = "success")

\* a host that exited 0 and printed the sentinel on stderr alone was failed
C1_Witness ==
    /\ last.cause = "natural"
    /\ last.outcome = "failed"
    /\ last.returncode = 0
    /\ Sentinel \in last.stderr
    /\ Sentinel \notin last.stdout

\* C2: when a run of one file has ended as failed (returned False or raised),
\* the output copy made for it no longer exists once process_single_transfer
\* is left.
C2_NoPartialOutput ==
    last.outcome \in {"failed", "exception"} => ~last.output_exists

\* C3: a run ended by the supervisor's timeout or memory check leaves no host
\* alive when control is back in the batch loop, and the file is recorded
\* failed.
C3_HostDeadAfterLimit ==
    last.cause \in {"timeout", "memory"} =>
        /\ ~last.host_alive
        /\ Recorded(last.src, FALSE)

C4_Common ==
    /\ IsPrefix(attempted, source_files)
    /\ DOMAIN results \subseteq Range(attempted)
    /\ ~continue_on_error =>
          \A i \in 1..(Len(attempted) - 1) : Recorded(attempted[i], TRUE)
    /\ (/\ pc = "exited"
        /\ ~continue_on_error
        /\ Len(source_files) = 3
        /\ Recorded(source_files[1], TRUE)
        /\ Recorded(source_files[2], FALSE))
       => /\ DOMAIN results = {source_files[1], source_files[2]}
          /\ attempted = SubSeq(source_files, 1, 2)
          /\ fs[create_output_filename(source_files[3], target)] = "none"

\* C4 as stated: the attempted files are a prefix of the list, each once in
\* order; with continue-on-error off no file after the first failed one is
\* attempted, so [A, B, C] with A succeeding and B failing ends with exactly
\* {A: success, B: fail}; with the flag on every source is attempted and has
\* an entry when the batch is over.
C4_StopOnFirstFailure ==
    /\ C4_Common
    /\ (pc = "exited" /\ continue_on_error)
       => /\ attempted = source_files
          /\ DOMAIN results = Range(source_files)

\* C4, amended: as stated, the part about continue-on-error on holding for
\* the batches that no interrupt stopped.
C4_StopOnFirstFailureUnlessInterrupted ==
    /\ C4_Common
    /\ (pc = "exited" /\ continue_on_error /\ last.outcome # "interrupt")
       => /\ attempted = source_files
          /\ DOMAIN results = Range(source_files)

\* [A, B, C] with the flag off: A succeeded, B failed, the batch is over
C4_Witness ==
    /\ pc = "exited"
    /\ ~continue_on_error
    /\ Len(source_files) = 3
    /\ Recorded(source_files[1], TRUE)
    /\ Recorded(source_files[2], FALSE)

\* C5: the exit code is 0 only if every attempted file succeeded, and a batch
\* that stopped before every source was carried to a recorded success never
\* exits 0.
C5_ExitZeroOnlyIfAllSucceeded ==
    (pc = "exited" /\ exit_code = 0) =>
        /\ \A i \in 1..Len(attempted) : Recorded(attempted[i], TRUE)
        /\ \A i \in 1..Len(source_files) : Recorded(source_files[i], TRUE)

\* C6: an exception other than KeyboardInterrupt raised while one file is
\* processed (in the copy, where copy_target_file turns it into False, or in
\* script creation, launch, polling or communicate, where it reaches main) is
\* caught: the file is recorded failed, and the batch goes on with the next
\* file (continue-on-error on) or to the summary (off).
C6_ExceptionRecordedAsFailed ==
    [][(InProcessSingleTransfer /\ ~InProcessSingleTransfer'
            /\ (last'.outcome = "exception" \/ last'.cause = "copy"))
        => /\ source_file \in DOMAIN results'
           /\ results'[source_file] = FALSE
           /\ \A s \in DOMAIN results : s \in DOMAIN results' /\ results'[s] = results[s]
           /\ successful' = successful
           /\ IF continue_on_error
              THEN pc' = "for" /\ idx' = idx + 1
              ELSE pc' = "summary"]_vars

\* after an exception in the first file the batch went on with the second
C6_Witness ==
    /\ last.outcome = "exception"
    /\ continue_on_error
    /\ idx = 2
    /\ pc = "copy"
    /\ Recorded(source_files[1], FALSE)

\* C7: at most one host launched by the tool is alive at any time.
C7_OneHostAtATime ==
    Cardinality(orphans) + (IF process.state = "running" THEN 1 ELSE 0) <= 1

\* number of characters of the longest stem of the sampled paths
MaxStem == 2

PathChars == {"a", "/", ".", "_"}

RECURSIVE Stems(_)
Stems(n) ==
    IF n = 0 THEN {<< >>}
    ELSE Stems(n - 1) \cup {Append(s, c) : s \in Stems(n - 1), c \in PathChars}

PathSamples == {s \o e : s \in Stems(MaxStem) \ {<< >>}, e \in {Ext, ExtUpper}}

OutputPathIsNeverTarget ==
    \A s \in PathSamples \cup Range(DirListing) \cup {SingleSource} :
        \A t \in PathSamples \cup Targets : create_output_filename(s, t) # t

InitialContent(p) ==
    IF p = target THEN "orig"
    ELSE IF p \in Range(source_files) THEN "source"
    ELSE "none"

\* C8: the output path differs from the target path for every source and
\* target; the target file keeps its content in every state; the host is
\* launched on the output copy; and no step changes a file other than the
\* output files of the attempted sources.
C8_TargetNeverTouched ==
    /\ OutputPathIsNeverTarget
    /\ fs[target] = "orig"
    /\ InProcessSingleTransfer =>
          /\ output_file = create_output_filename(source_file, target)
          /\ output_file # target
    /\ process.state # "none" => process.file = output_file
    /\ target \notin orphans
    /\ LET outputs == {create_output_filename(attempted[i], target) :
                           i \in 1..Len(attempted)}
       IN  \A p \in AllPaths \ outputs : fs[p] = InitialContent(p)

\* a failed run's output copy was removed while the target is still there,
\* in a batch whose target lies in the source directory
C8_Witness ==
    /\ last.cause = "natural"
    /\ last.outcome = "failed"
    /\ fs[create_output_filename(last.src, target)] = "none"
    /\ dirname(target) = dirname(last.src)
    /\ fs[target] = "orig"

----------------------------------------------------------------------------
(* Claims about the host script.                                           *)

\* C9: after a successful run every frame of [start_frame, end_frame] and
\* every mapped bone has a keyframe whose location is scale_factor times the
\* source bone's location at that frame on each axis, and whose rotation and
\* scale are the source bone's at that frame.
C9_KeyframesScaled ==
    run.result = "True" =>
        \A f \in run.start_frame..run.end_frame :
            \A i \in 1..Len(run.bone_mapping) :
                LET b == run.bone_mapping[i][1]
                    t == run.bone_mapping[i][2]
                IN  /\ <<t, f>> \in DOMAIN bpy.keyframes
                    /\ bpy.keyframes[<<t, f>>].location =
                          [k \in 1..3 |->
                              script.scale_factor * source_location(b, f)[k]]
                    /\ bpy.keyframes[<<t, f>>].rotation = source_rotation(b, f)
                    /\ bpy.keyframes[<<t, f>>].scale = source_scale(b, f)

\* a run with scale_factor 0 succeeded: a moving source bone is keyed at the
\* zero location on several frames
C9_Witness ==
    /\ run.result = "True"
    /\ script.scale_factor = 0
    /\ run.frame_count >= 2
    /\ \E i \in 1..Len(run.bone_mapping) :
          LET b == run.bone_mapping[i][1]
              t == run.bone_mapping[i][2]
          IN  /\ source_location(b, run.end_frame) # <<0, 0, 0>>
              /\ bpy.keyframes[<<t, run.end_frame>>].location = <<0, 0, 0>>

FramesResolved == run.frame_count # -1
BonesResolved == run.source_bone_names # << >>

\* C10: once the frame range is resolved, frame_count is
\* end_frame - start_frame + 1, the warning is printed exactly when
\* frame_count > max_frames and the run fails with the frame range error
\* exactly when frame_count > 2*max_frames, before the copy loop is entered
\* and with no keyframe written; otherwise it goes on to the copy loop. The
\* same holds for the bone counts of the two rigs against max_bones.
C10_DoublingLaw ==
    /\ FramesResolved =>
          /\ run.frame_count = run.end_frame - run.start_frame + 1
          /\ "WARNING: Large frame range" \in printed
                <=> run.frame_count > script.MAX_FRAME_RANGE
          /\ "ERROR: Frame range too large" \in printed
                <=> run.frame_count > 2 * script.MAX_FRAME_RANGE
          /\ IF run.frame_count > 2 * script.MAX_FRAME_RANGE
             THEN /\ run.pc \in {"returned", "exited"}
                  /\ run.result = "False"
                  /\ bpy.keyframes = NoKeyframes
                  /\ monitor.frame_count = 0
             ELSE /\ run.pc \in {"copy", "returned", "exited"}
                  /\ bpy.frame_start = run.start_frame
                  /\ bpy.frame_end = run.end_frame
    /\ BonesResolved =>
          LET most == IF Len(run.source_bone_names) > Len(run.target_bone_names)
                      THEN Len(run.source_bone_names)
                      ELSE Len(run.target_bone_names)
          IN  /\ "WARNING: Large number of bones" \in printed
                    <=> most > script.MAX_BONES
              /\ "ERROR: Too many bones for safe processing" \in printed
                    <=> most > 2 * script.MAX_BONES
              /\ IF most > 2 * script.MAX_BONES
                 THEN /\ run.pc \in {"returned", "exited"}
                      /\ run.result = "False"
                      /\ ~FramesResolved
                      /\ bpy.keyframes = NoKeyframes
                 ELSE run.pc \in {"resolve_frames", "copy", "returned", "exited"}

\* a run of exactly 2*max_frames frames was warned about, copied and succeeded
C10_Witness ==
    /\ run.frame_count = 2 * script.MAX_FRAME_RANGE
    /\ "WARNING: Large frame range" \in printed
    /\ run.result = "True"
    /\ monitor.frame_count = run.frame_count
    /\ bpy.keyframes # NoKeyframes

\* C11: once the bone mapping is built its keys are exactly the names that
\* are bones of both rigs, every key is mapped to the identical name, no key
\* or value is a name missing from either rig, and it stays so for the rest
\* of the run; a run leaves the mapping step without entering the frame
\* resolution only through a raised check or the bone count limit, never
\* because a bone of one rig is missing from the other.
C11_BoneMappingIsIntersection ==
    /\ [](run.pc \in {"resolve_frames", "copy"} \/ FramesResolved
            => LET S == Range(run.source_bone_names)
                   T == Range(run.target_bone_names)
                   items == Range(run.bone_mapping)
               IN  /\ {item[1] : item \in items} = S \cap T
                   /\ \A item \in items : item[2] = item[1]
                   /\ Cardinality(items) = Len(run.bone_mapping))
    /\ [][run.pc = "bone_mapping" /\ run'.pc # "resolve_frames"
            => \/ hist'.cause \in {"timeout", "memory"}
               \/ "ERROR: Too many bones for safe processing" \in printed']_vars

\* a run went on to the frames with a mapping that leaves out bones of both
\* rigs: leg is only in the source rig, tail only in the target rig
C11_Witness ==
    /\ run.pc = "copy"
    /\ run.source_bone_names = <<"hip", "arm", "leg">>
    /\ run.target_bone_names = <<"hip", "tail", "arm">>
    /\ run.bone_mapping = << <<"hip", "hip">>, <<"arm", "arm">> >>

\* C12: the resolved pair (start_frame, end_frame) is the source action's
\* frame range truncated to integers, or the scene's bounds when the action
\* reports none; it is the same in every later state of the run, the new
\* action's frame range is not written while the loop runs, and what is
\* written after the loop is that pair.
C12_ResolvedRangeIsWrittenRange ==
    FramesResolved =>
        LET halves == run.frame_range
            written == bpy.target_action.frame_range
        IN  /\ IF halves # NoRange
               THEN /\ 2 * run.start_frame <= halves[1]
                    /\ halves[1] < 2 * run.start_frame + 2
                    /\ 2 * run.end_frame <= halves[2]
                    /\ halves[2] < 2 * run.end_frame + 2
               ELSE <<run.start_frame, run.end_frame>> = SceneFrameBounds
            /\ written \in {NoRange, <<run.start_frame, run.end_frame>>}
            /\ run.pc = "copy" => written = NoRange
            /\ Sentinel \in printed
                  => written = <<run.start_frame, run.end_frame>>

\* a run on a source action of range (1.5, 3.5) succeeded: frames 1 to 3 were
\* copied and (1, 3) is the new action's range
C12_Witness ==
    /\ Sentinel \in printed
    /\ run.frame_range = <<3, 7>>
    /\ Len(hist.frames_set) = 3
    /\ bpy.target_action.frame_range = <<1, 3>>
    /\ SceneFrameBounds # <<1, 3>>

\* C13: when the copy loop has completed, frame_set was called with the
\* frames start_frame, start_frame + 1, ..., end_frame, each once and in
\* that order; keyframes_copied is frame_count times the number of mapped
\* bones; every mapped bone has at every frame a keyframe with its three
\* channels, and the values keyed at frame f are those the source bone has
\* at f, so the frame pointer was at f when the bone was read.
C13_EveryFrameOnceInOrder ==
    run.pc \in {"copy", "returned", "exited"} /\ FramesResolved
        /\ run.frame_idx = run.frame_count =>
        /\ hist.frames_set =
              [i \in 1..run.frame_count |-> run.start_frame + i - 1]
        /\ Len(hist.frames_set) = run.end_frame - run.start_frame + 1
        /\ run.keyframes_copied = run.frame_count * Len(run.bone_mapping)
        /\ DOMAIN bpy.keyframes =
              {<<item[2], f>> : item \in Range(run.bone_mapping),
                                f \in run.start_frame..run.end_frame}
        /\ \A item \in Range(run.bone_mapping) :
              \A f \in run.start_frame..run.end_frame :
                 LET keyed == bpy.keyframes[<<item[2], f>>]
                 IN  /\ DOMAIN keyed = {"location", "rotation", "scale"}
                     /\ keyed.rotation = source_rotation(item[1], f)
                     /\ keyed.scale = source_scale(item[1], f)

\* the loop went through four frames with two mapped bones: eight transfers
C13_Witness ==
    /\ run.pc = "copy"
    /\ run.frame_idx = run.frame_count
    /\ hist.frames_set = <<1, 2, 3, 4>>
    /\ Len(run.bone_mapping) = 2
    /\ run.keyframes_copied = 8

\* C14: the scene's frame range is the one the host was started with until
\* the frame count and the bone counts have passed their limits; from the
\* step that sets it to (start_frame, end_frame) on it is that pair in every
\* later state of the run, whether the run succeeds, or fails in the copy
\* loop or after it.
C14_SceneRangeSetNeverRestored ==
    IF "Extended scene range" \in printed
    THEN /\ FramesResolved /\ BonesResolved
         /\ ~over_double_limit(run.frame_count, script.MAX_FRAME_RANGE)
         /\ ~over_double_limit(Len(run.source_bone_names), script.MAX_BONES)
         /\ ~over_double_limit(Len(run.target_bone_names), script.MAX_BONES)
         /\ <<bpy.frame_start, bpy.frame_end>> =
               <<run.start_frame, run.end_frame>>
         /\ <<run.original_start, run.original_end>> = SceneFrameBounds
    ELSE /\ <<bpy.frame_start, bpy.frame_end>> = SceneFrameBounds
         /\ run.pc # "copy"
         /\ bpy.keyframes = NoKeyframes

\* a run was declared stalled inside the copy loop and the host has exited:
\* the scene's range is the widened one, not the one it had
C14_Witness ==
    /\ run.pc = "exited"
    /\ hist.cause = "stall"
    /\ hist.frames_set # << >>
    /\ <<bpy.frame_start, bpy.frame_end>> = <<1, 4>>
    /\ SceneFrameBounds = <<1, 2>>

\* C15 as stated: the target armature is the first armature of the scene's
\* objects; the source armature is the first armature, in enumeration order,
\* among the imported objects that is not the target; and the run returns
\* failure with no keyframe written when either is absent.
C15_FirstFoundArmatures ==
    LET imported == run.imported_objects
        IsSource(o) == o.type = "ARMATURE" /\ o.name # run.target_armature
    IN  /\ run.pc # "idle" /\ run.target_armature # None =>
              \E i \in 1..Len(bpy.scene_objects) :
                  /\ bpy.scene_objects[i] = Obj(run.target_armature, "ARMATURE")
                  /\ \A j \in 1..(i - 1) :
                        bpy.scene_objects[j].type # "ARMATURE"
        /\ run.pc # "idle" /\ run.source_armature # None =>
              \E i \in 1..Len(imported) :
                  /\ imported[i].name = run.source_armature
                  /\ IsSource(imported[i])
                  /\ \A j \in 1..(i - 1) : ~IsSource(imported[j])
        /\ "ERROR: No target armature found!" \in printed =>
              /\ \A i \in 1..Len(bpy.scene_objects) :
                    bpy.scene_objects[i].type # "ARMATURE"
              /\ run.result = "False" /\ bpy.keyframes = NoKeyframes
        /\ "ERROR: No source armature found!" \in printed =>
              /\ \A i \in 1..Len(imported) : ~IsSource(imported[i])
              /\ run.result = "False" /\ bpy.keyframes = NoKeyframes
        /\ run.pc \in {"get_animation", "copy"} =>
              run.target_armature # None /\ run.source_armature # None

----------------------------------------------------------------------------
(* SafetyMonitor on its own: calls of check_progress and update_progress   *)
(* at any times, for more calls than PROGRESS_INTERVAL.                    *)

\* bounds: the calls of check_progress looked at, and the latest time
MaxCalls == 201
MaxTime == 64

\* the seconds that may pass between two calls
Waits == {15, 31}

\* the monitor has been built and nothing else runs; hist.raised_at holds the
\* seconds since last_progress at the latest call of check_progress
MonitorInit ==
    /\ script = [MAX_FRAME_RANGE |-> 0, MAX_BONES |-> 0, scale_factor |-> 0]
    /\ now = 0
    /\ monitor = [start_time |-> 0, last_progress |-> 0, frame_count |-> 0]
    /\ bpy = [scene_objects |-> << >>, data_objects |-> << >>,
              frame_start |-> 0, frame_end |-> 0, frame_current |-> 0,
              mode |-> "OBJECT", target_action |-> None,
              keyframes |-> NoKeyframes, saved |-> FALSE]
    /\ run = [pc |-> "monitor"]
    /\ printed = {}
    /\ hist = NoHistory

\* time.time() moves on between two calls
Wait ==
    /\ run.pc = "monitor"
    /\ \E d \in Waits : now + d <= MaxTime /\ now' = now + d
    /\ UNCHANGED <<batchVars, script, monitor, bpy, run, printed, hist>>

\* monitor.check_progress(frame)
CheckProgress ==
    /\ run.pc = "monitor"
    /\ hist.progress_calls < MaxCalls
    /\ LET waited == now - monitor.last_progress
           called == [hist EXCEPT !.progress_calls = @ + 1,
                                  !.raised_at = waited]
       IN  IF check_progress_raises(monitor, now) # "ok"
           THEN /\ hist' = [called EXCEPT !.cause = "stall"]
                /\ run' = [pc |-> "raised"]
                /\ monitor' = monitor
           ELSE /\ hist' = called
                /\ run' = run
                /\ monitor' = check_progress_update(monitor, now)
    /\ UNCHANGED <<batchVars, script, now, bpy, printed>>

\* monitor.update_progress()
UpdateProgress ==
    /\ run.pc = "monitor"
    /\ monitor' = update_progress
    /\ UNCHANGED <<batchVars, script, now, bpy, run, printed, hist>>

MonitorNext ==
    \/ Wait
    \/ CheckProgress
    \/ UpdateProgress

InitMonitor == BatchIdle /\ MonitorInit
SpecMonitor == InitMonitor /\ [][MonitorNext]_vars

\* what every call of check_progress and of update_progress does to
\* last_progress: check_progress raises exactly when more than StallSeconds
\* have passed since last_progress, a call that returns adds one to
\* frame_count and stamps last_progress exactly when the new frame_count is
\* a multiple of PROGRESS_INTERVAL, and update_progress always stamps it
C16_Calls ==
    /\ hist'.progress_calls = hist.progress_calls + 1 =>
          /\ hist'.cause = "stall" <=> now - monitor.last_progress > 30
          /\ hist'.cause # "stall" =>
                /\ monitor'.frame_count = monitor.frame_count + 1
                /\ monitor'.last_progress =
                      IF monitor'.frame_count % 100 = 0 THEN now
                      ELSE monitor.last_progress
    /\ hist' = hist /\ monitor' # monitor => monitor'.last_progress = now
    /\ monitor'.frame_count >= monitor.frame_count

\* C16 as stated: every call of check_progress adds one to frame_count, so
\* frame_count is the number of calls made so far.
C16_EveryCallCounted ==
    /\ [](monitor.frame_count = hist.progress_calls)
    /\ [][C16_Calls]_vars

\* C16, amended: every call of check_progress that returns adds one to
\* frame_count, the call that raises the stall adds nothing, so frame_count
\* is the number of calls that returned.
C16_EveryReturnedCallCounted ==
    /\ [](monitor.frame_count =
             hist.progress_calls - (IF hist.cause = "stall" THEN 1 ELSE 0))
    /\ [][C16_Calls]_vars

\* 200 calls returned, the 200th stamped last_progress at its time, and the
\* 201st, 31 seconds later, raised
C16_Witness ==
    /\ hist.progress_calls = 201
    /\ hist.cause = "stall"
    /\ monitor.frame_count = 200
    /\ monitor.last_progress = 30
    /\ now = 61

----------------------------------------------------------------------------
(* Claims about the checks inside the host script.                         *)

\* C17 as stated: a run is ended by the memory check only when a measurement
\* was obtained and exceeds the limit; a measurement that could not be taken
\* (psutil missing, the process lookup or the access failing) ends no run.
C17_UnmeasuredMemoryNeverFails ==
    hist.cause = "memory" => hist.reading = "over"

\* C18 as stated: once the copy loop has been entered, a run is ended by the
\* time check only when more than 600 seconds have passed since start_time;
\* so a run whose loop ends at or below 600 seconds goes through the cleanup.
C18_LoopTimeoutOnlyPastLongLimit ==
    hist.cause = "timeout" /\ hist.frames_set # << >> => hist.raised_at > 600

\* C19 as stated: a run in which no step, setup step or frame, took more
\* than 30 seconds is never declared stalled by check_progress.
C19_NoStallWhileProgressing ==
    hist.cause = "stall" => hist.slow

\* C20: the scene is saved and the host exits with status 0 only in runs that
\* printed RESULT: SUCCESS; that line is printed only when every frame of the
\* range has been set and keyed, the action's frame range is written and no
\* imported object is left; and every run that ends otherwise (an early
\* return, a raised check, MemoryError, any other exception) has main()
\* return False, prints RESULT: FAILED when it was an exception, saves
\* nothing and exits with status 1.
C20_SavedOnlyOnSuccess ==
    /\ bpy.saved => Sentinel \in printed /\ run.exit_code = 0
    /\ run.pc = "exited" /\ run.exit_code = 0 => Sentinel \in printed
    /\ Sentinel \in printed =>
          /\ run.result = "True"
          /\ hist.cause = "none"
          /\ hist.frames_set =
                [i \in 1..run.frame_count |-> run.start_frame + i - 1]
          /\ bpy.target_action.frame_range =
                <<run.start_frame, run.end_frame>>
          /\ Names(run.imported_objects)
                \cap (Names(bpy.scene_objects) \cup Names(bpy.data_objects)) = {}
    /\ run.pc \in {"returned", "exited"} /\ Sentinel \notin printed =>
          /\ run.result = "False"
          /\ ~bpy.saved
          /\ bpy.mode = "OBJECT"
          /\ run.pc = "exited" => run.exit_code = 1
    /\ hist.cause # "none" =>
          /\ "RESULT: FAILED" \in printed
          /\ Sentinel \notin printed
          /\ run.pc \in {"returned", "exited"}

\* the host ran out of memory while keying the second frame: the scene with
\* the keyframes of the first frame is not saved and the host exits with 1
C20_Witness ==
    /\ run.pc = "exited"
    /\ "ERROR: Out of memory" \in printed
    /\ Len(hist.frames_set) = 2
    /\ bpy.keyframes # NoKeyframes
    /\ ~bpy.saved
    /\ run.exit_code = 1

----------------------------------------------------------------------------
(* The supervisor and a host that writes to its pipes: the host would do   *)
(* its job at once, print all its output, save and exit 0.                 *)

\* bounds: the chunks of output an unread pipe holds before a write to it
\* blocks, and the most chunks a host writes to one stream
PipeCapacity == 2
MaxVolume == 3

\* the host has something it can do: a write to a pipe with room, or, with
\* nothing left to write, its exit
HostCanStep ==
    /\ process.state = "running"
    /\ \/ pipe.to_stdout > 0 /\ pipe.stdout < PipeCapacity
       \/ pipe.to_stderr > 0 /\ pipe.stderr < PipeCapacity
       \/ pipe.to_stdout = 0 /\ pipe.to_stderr = 0

\* start_time = time.time(); process = subprocess.Popen(cmd,
\* stdout=subprocess.PIPE, stderr=subprocess.PIPE, text=True), for a host
\* whose run writes out chunks to stdout and err chunks to stderr
PipeLaunch ==
    /\ pc = "launch"
    /\ \/ /\ process' = [state |-> "running", file |-> output_file,
                         returncode |-> -1, stdout |-> {}, stderr |-> {}]
          /\ \E out \in 0..MaxVolume, err \in {0, MaxVolume} :
                pipe' = [stdout |-> 0, stderr |-> 0,
                         to_stdout |-> out, to_stderr |-> err]
          /\ elapsed' = 0
          /\ pc' = "poll"
          /\ UNCHANGED <<hostVars, source_files, target, continue_on_error, idx,
                         results, successful, exit_code, attempted,
                         output_file, temp_script, orphans, fs, last>>
       \/ Leave("exception", "launch", process, fs)

\* the host prints: one chunk goes into a pipe that has room; nothing reads
\* the pipes while the host runs
HostWrite ==
    /\ process.state = "running"
    /\ \/ /\ pipe.to_stdout > 0 /\ pipe.stdout < PipeCapacity
          /\ pipe' = [pipe EXCEPT !.stdout = @ + 1, !.to_stdout = @ - 1]
       \/ /\ pipe.to_stderr > 0 /\ pipe.stderr < PipeCapacity
          /\ pipe' = [pipe EXCEPT !.stderr = @ + 1, !.to_stderr = @ - 1]
    /\ UNCHANGED <<hostVars, source_files, target, continue_on_error, pc, idx,
                   results, successful, exit_code, attempted, output_file,
                   temp_script, elapsed, process, orphans, fs, last>>

\* the host has printed everything, RESULT: SUCCESS included: it saves the
\* file it was opened on and exits 0
HostFinish ==
    /\ process.state = "running"
    /\ pipe.to_stdout = 0 /\ pipe.to_stderr = 0
    /\ process' = [process EXCEPT !.state = "exited", !.returncode = 0,
                                  !.stdout = {Sentinel}, !.stderr = {}]
    /\ fs' = [fs EXCEPT ![process.file] = "saved"]
    /\ UNCHANGED <<hostVars, pipe, source_files, target, continue_on_error, pc,
                   idx, results, successful, exit_code, attempted, output_file,
                   temp_script, elapsed, orphans, last>>

\* the body of the poll loop for a host within the memory limit: the timeout
\* check and the sleep of one tick; the host does what it can do before the
\* tick is over
PipeMonitor ==
    /\ pc = "monitor"
    /\ \/ /\ elapsed > TimeoutTicks
          /\ Terminate("timeout")
       \/ /\ elapsed <= TimeoutTicks
          /\ ~HostCanStep
          /\ elapsed' = elapsed + 1
          /\ pc' = "poll"
          /\ UNCHANGED <<hostVars, pipe, source_files, target, continue_on_error,
                         idx, results, successful, exit_code, attempted,
                         output_file, temp_script, process, orphans, fs, last>>

PipeInit ==
    /\ source_files = <<SingleSource>>
    /\ target = <<"t">> \o Ext
    /\ continue_on_error \in BOOLEAN
    /\ pc = "for"
    /\ idx = 1
    /\ results = << >>
    /\ successful = 0
    /\ exit_code = -1
    /\ attempted = << >>
    /\ output_file = << >>
    /\ temp_script = FALSE
    /\ elapsed = 0
    /\ process = NoProcess
    /\ orphans = {}
    /\ fs = [p \in AllPaths |->
                IF p = target THEN "orig"
                ELSE IF p \in Range(source_files) THEN "source"
                ELSE "none"]
    /\ last = NoReturn
    /\ pipe = NoPipe

PipeNext ==
    \/ NextFile
    \/ CopyTarget
    \/ CreateScript
    \/ PipeLaunch
    \/ PollLoop
    \/ PipeMonitor
    \/ Communicate
    \/ Interrupt
    \/ Summary
    \/ HostWrite
    \/ HostFinish
    \/ OrphanExit

InitPipe == PipeInit /\ HostIdle
SpecPipe == InitPipe /\ [][PipeNext]_vars

\* C21 as stated: a host that would finish its job at once, exit 0 and print
\* the sentinel is never reaped by the timeout branch, whatever it writes to
\* its pipes; after its natural exit everything it had to write has been
\* written and captured and the file is classified succeeded.
C21_PollNeverStarvesHost ==
    /\ last.cause # "timeout"
    /\ last.cause = "natural" =>
          /\ last.outcome = "success"
          /\ pipe.to_stdout = 0 /\ pipe.to_stderr = 0
          /\ Sentinel \in last.stdout

====
